---- MODULE Spec2Model ----
(***************************************************************************)
(* Model of src/src/error_handling_example.py: the retrying request        *)
(* (retry_with_backoff) and the deadline-bounded request (timeout_example). *)
(* query() is the external SDK operation: a lazy sequence of messages that  *)
(* may end, or raise ProcessError, CLINotFoundError or another error.       *)
(* Printing is left out: no property below reads the printed text.          *)
(***************************************************************************)
EXTENDS Integers, Sequences, FiniteSets

\* ---------------------------------------------------------------- bounds
MaxRetries == 4
MaxItems == 2
\* values of base_delay (seconds) the calls are made with
BaseDelays == {1, 3, 10}
\* errors of query() that are neither ProcessError nor CLINotFoundError
OtherKinds == {"CLIJSONDecodeError", "Exception"}

\* asyncio.timeout(30) of timeout_example
TimeoutSeconds == 30

VARIABLES
    max_retries,     \* argument of retry_with_backoff
    base_delay,      \* argument of retry_with_backoff
    pc,              \* "Idle", "Attempting", "RetryWaiting", "Done"
    attempt,         \* loop variable of `for attempt in range(max_retries)`
    last_exception,  \* local of retry_with_backoff
    delay,           \* local of retry_with_backoff
    items,           \* messages the current query() has yielded so far
    result,          \* how the call ended: "none", "return", "raise"
    raised,          \* the exception the call ended with
    trace,           \* history: "query", an error kind, "drained", "sleep"
    delays,          \* history: the arguments of the asyncio.sleep calls
    slept,           \* history: seconds spent in asyncio.sleep
    tpc,             \* timeout_example: "Idle", "Awaiting", "Done"
    tclock,          \* seconds since `async with asyncio.timeout(30)` began
    titems,          \* messages query() has yielded to timeout_example
    tdrained,        \* history: query() ended inside the async with block
    reports,         \* the final lines timeout_example has printed
    gpc,             \* graceful_degradation: "Idle", "Trying", "Done"
    glevel,          \* position of `for tools, description in tool_sets`
    gitems,          \* messages the current query() has yielded so far
    gresult,         \* "none", "succeeded", "all_failed", "raise"
    graised,         \* the exception graceful_degradation ended with
    gtried,          \* history: the descriptions tried, in order
    goutcomes,       \* history: how the query() of each level ended
    gyielded         \* history: the messages each ended level had yielded

\* the state of a call of retry_with_backoff
rvars == <<max_retries, base_delay, pc, attempt, last_exception, delay, items,
           result, raised, trace, delays, slept>>

\* the state of a call of timeout_example
tvars == <<tpc, tclock, titems, tdrained, reports>>

\* the state of a call of graceful_degradation
gvars == <<gpc, glevel, gitems, gresult, graised, gtried, goutcomes, gyielded>>

vars == <<rvars, tvars, gvars>>

None == [kind |-> "None", id |-> 0]

\* the exception object raised by the n-th invocation of query()
Error(k, n) == [kind |-> k, id |-> n]

RECURSIVE Count(_, _)
Count(s, e) ==
    IF s = <<>> THEN 0
    ELSE (IF Head(s) = e THEN 1 ELSE 0) + Count(Tail(s), e)

\* number of times query() has been invoked
Invocations == Count(trace, "query")

\* number of asyncio.sleep calls made
Sleeps == Count(trace, "sleep")

\* mutant: the loop runs one iteration too many
InRange_OneMore(a, n) == a >= 0 /\ a <= n

\* mutant: the loop body runs once before the bound is tested
InRange_AtLeastOnce(a, n) == a = 0 \/ (a >= 0 /\ a < n)

\* `for attempt in range(max_retries)`: is a a value of the range
InRange(a, n) == a >= 0 /\ a < n

\* mutant: the last failed attempt is followed by a sleep too
ShouldSleep_Always(a, n) == a < n

\* `if attempt < max_retries - 1`
ShouldSleep(a, n) == a < n - 1

\* mutant: the exponent counts attempts from one
BackoffDelay_FromOne(b, a) == b * 2 ^ (a + 1)

\* `delay = base_delay * (2**attempt)`
BackoffDelay(b, a) == b * 2 ^ a

\* timeout_example has not been called
TIdle ==
    /\ tpc = "Idle"
    /\ tclock = 0
    /\ titems = 0
    /\ tdrained = FALSE
    /\ reports = {}

\* graceful_degradation has not been called
GIdle ==
    /\ gpc = "Idle"
    /\ glevel = 0
    /\ gitems = 0
    /\ gresult = "none"
    /\ graised = None
    /\ gtried = <<>>
    /\ goutcomes = <<>>
    /\ gyielded = <<>>

Init ==
    /\ TIdle
    /\ GIdle
    /\ max_retries \in -1..MaxRetries
    /\ base_delay \in BaseDelays
    /\ pc = "Idle"
    /\ attempt = 0
    /\ last_exception = None
    /\ delay = 0
    /\ items = 0
    /\ result = "none"
    /\ raised = None
    /\ trace = <<>>
    /\ delays = <<>>
    /\ slept = 0

\* mutant: `if last_exception: raise last_exception` is missing
LoopNext_NoRaise(a, tr, le) ==
    IF a >= 0 /\ a < max_retries
    THEN /\ attempt' = a
         /\ pc' = "Attempting"
         /\ items' = 0
         /\ trace' = Append(tr, "query")
         /\ UNCHANGED <<result, raised>>
    ELSE /\ pc' = "Done"
         /\ trace' = tr
         /\ result' = "return"
         /\ UNCHANGED <<attempt, items, raised>>

\* The for statement takes its next value, or the loop ends and lines 98-99
\* run; tr is the history so far and le the value of last_exception.
LoopNext(a, tr, le) ==
    IF InRange(a, max_retries)
    THEN /\ attempt' = a
         /\ pc' = "Attempting"
         /\ items' = 0
         /\ trace' = Append(tr, "query")
         /\ UNCHANGED <<result, raised>>
    ELSE /\ pc' = "Done"
         /\ trace' = tr
         /\ result' = IF le # None THEN "raise" ELSE "return"
         /\ raised' = le
         /\ UNCHANGED <<attempt, items>>

\* retry_with_backoff is called: last_exception = None, the loop is entered
Call ==
    /\ pc = "Idle"
    /\ last_exception' = None
    /\ LoopNext(0, trace, None)
    /\ UNCHANGED <<max_retries, base_delay, delay, delays, slept>>
    /\ UNCHANGED tvars
    /\ UNCHANGED gvars

\* query() yields one more message
Yield ==
    /\ pc = "Attempting"
    /\ items < MaxItems
    /\ items' = items + 1
    /\ UNCHANGED <<max_retries, base_delay, pc, attempt, last_exception, delay,
                   result, raised, trace, delays, slept>>
    /\ UNCHANGED tvars
    /\ UNCHANGED gvars

\* mutant: the `return` after the async for is missing
Drained_NoReturn ==
    /\ pc = "Attempting"
    /\ LoopNext(attempt + 1, Append(trace, "drained"), last_exception)
    /\ UNCHANGED <<max_retries, base_delay, last_exception, delay, delays,
                   slept>>
    /\ UNCHANGED tvars
    /\ UNCHANGED gvars

\* query() ends: the async for is left and `return` runs
Drained ==
    /\ pc = "Attempting"
    /\ pc' = "Done"
    /\ result' = "return"
    /\ trace' = Append(trace, "drained")
    /\ UNCHANGED <<max_retries, base_delay, attempt, last_exception, delay,
                   items, raised, delays, slept>>
    /\ UNCHANGED tvars
    /\ UNCHANGED gvars

\* mutant: only the first error is remembered
Caught_KeepFirst(le, e) == IF le = None THEN e ELSE le

\* `except ProcessError as e: last_exception = e`
Caught(le, e) == e

\* The body of `except ProcessError as e` for an error of kind k: remember
\* it, then sleep before the next attempt, or print and let the loop end.
HandleRetryable(k) ==
    LET e == Error(k, Invocations)
        tr == Append(trace, k)
        le == Caught(last_exception, e)
    IN /\ last_exception' = le
       /\ IF ShouldSleep(attempt, max_retries)
          THEN /\ delay' = BackoffDelay(base_delay, attempt)
               /\ pc' = "RetryWaiting"
               /\ trace' = Append(tr, "sleep")
               /\ delays' = Append(delays, delay')
               /\ UNCHANGED <<attempt, items, result, raised>>
          ELSE /\ LoopNext(attempt + 1, tr, le)
               /\ UNCHANGED <<delay, delays>>
       /\ UNCHANGED <<max_retries, base_delay, slept>>
       /\ UNCHANGED tvars
       /\ UNCHANGED gvars

\* An exception of kind k leaves retry_with_backoff: re-raised by
\* `except CLINotFoundError: raise`, or caught by no except clause.
Propagate(k) ==
    /\ pc' = "Done"
    /\ result' = "raise"
    /\ raised' = Error(k, Invocations)
    /\ trace' = Append(trace, k)
    /\ UNCHANGED <<max_retries, base_delay, attempt, last_exception, delay,
                   items, delays, slept>>
    /\ UNCHANGED tvars
    /\ UNCHANGED gvars

\* query() raises ProcessError
RaiseProcessError ==
    /\ pc = "Attempting"
    /\ HandleRetryable("ProcessError")

\* asyncio.sleep(delay) returns: the loop goes to its next iteration
SleepDone ==
    /\ pc = "RetryWaiting"
    /\ slept' = slept + delay
    /\ LoopNext(attempt + 1, trace, last_exception)
    /\ UNCHANGED <<max_retries, base_delay, last_exception, delay, delays>>
    /\ UNCHANGED tvars
    /\ UNCHANGED gvars

\* mutant: CLINotFoundError is handled like ProcessError
RaiseCLINotFoundError_Retried ==
    /\ pc = "Attempting"
    /\ HandleRetryable("CLINotFoundError")

\* query() raises CLINotFoundError: `except CLINotFoundError: raise`
RaiseCLINotFoundError ==
    /\ pc = "Attempting"
    /\ Propagate("CLINotFoundError")

\* mutant: the handler is `except Exception`, so every error is retried
RaiseOtherError_Retried ==
    /\ pc = "Attempting"
    /\ \E k \in OtherKinds : HandleRetryable(k)

\* query() raises an error no except clause names
RaiseOtherError ==
    /\ pc = "Attempting"
    /\ \E k \in OtherKinds : Propagate(k)

Next ==
    \/ Call
    \/ Yield
    \/ Drained
    \/ RaiseProcessError
    \/ SleepDone
    \/ RaiseCLINotFoundError
    \/ RaiseOtherError

Spec == Init /\ [][Next]_vars

\* every invocation of query() and every sleep terminates
FairSpec == Spec /\ WF_vars(Next)

\* ------------------------------------------------------ timeout_example
\* Time is counted in whole seconds and passes only while the task is
\* suspended on the next message; a message, the end of the sequence or an
\* error arrives strictly before the deadline or not at all.
\* `asyncio.timeout(30)`: the deadline has passed t seconds after entry
Expired(t) == t >= TimeoutSeconds

\* the retry_with_backoff call retry_example makes, not yet started
RetryExampleIdle ==
    /\ max_retries = 3
    /\ base_delay = 1
    /\ pc = "Idle"
    /\ attempt = 0
    /\ last_exception = None
    /\ delay = 0
    /\ items = 0
    /\ result = "none"
    /\ raised = None
    /\ trace = <<>>
    /\ delays = <<>>
    /\ slept = 0

InitTimeout == RetryExampleIdle /\ TIdle /\ GIdle

\* `async with asyncio.timeout(30)` is entered and query() is iterated
TStart ==
    /\ tpc = "Idle"
    /\ tpc' = "Awaiting"
    /\ UNCHANGED <<tclock, titems, tdrained, reports>>
    /\ UNCHANGED rvars
    /\ UNCHANGED gvars

\* a second passes while the next message is awaited, before the deadline
TPass ==
    /\ tpc = "Awaiting"
    /\ ~Expired(tclock + 1)
    /\ tclock' = tclock + 1
    /\ UNCHANGED <<tpc, titems, tdrained, reports>>
    /\ UNCHANGED rvars
    /\ UNCHANGED gvars

\* query() yields one more message
TYield ==
    /\ tpc = "Awaiting"
    /\ titems < MaxItems
    /\ titems' = titems + 1
    /\ UNCHANGED <<tpc, tclock, tdrained, reports>>
    /\ UNCHANGED rvars
    /\ UNCHANGED gvars

\* query() ends: the block is left and "Completed within timeout" printed
TDrained ==
    /\ tpc = "Awaiting"
    /\ tpc' = "Done"
    /\ tdrained' = TRUE
    /\ reports' = reports \cup {"completed"}
    /\ UNCHANGED <<tclock, titems>>
    /\ UNCHANGED rvars
    /\ UNCHANGED gvars

\* query() raises an error, of whatever class: `except Exception as e`
\* prints it
TRaise ==
    /\ tpc = "Awaiting"
    /\ reports' = reports \cup {"error"}
    /\ tpc' = "Done"
    /\ UNCHANGED <<tclock, titems, tdrained>>
    /\ UNCHANGED rvars
    /\ UNCHANGED gvars

\* mutant: `except Exception` comes first and catches the TimeoutError
TDeadline_CaughtAsError ==
    /\ tpc = "Awaiting"
    /\ Expired(tclock + 1)
    /\ tclock' = tclock + 1
    /\ tpc' = "Done"
    /\ reports' = reports \cup {"error"}
    /\ UNCHANGED <<titems, tdrained>>
    /\ UNCHANGED rvars
    /\ UNCHANGED gvars

\* The deadline passes while the next message is awaited: the await is
\* cancelled, the block raises TimeoutError, `except TimeoutError` prints.
TDeadline ==
    /\ tpc = "Awaiting"
    /\ Expired(tclock + 1)
    /\ tclock' = tclock + 1
    /\ tpc' = "Done"
    /\ reports' = reports \cup {"timed_out"}
    /\ UNCHANGED <<titems, tdrained>>
    /\ UNCHANGED rvars
    /\ UNCHANGED gvars

NextTimeout ==
    \/ TStart
    \/ TPass
    \/ TYield
    \/ TDrained
    \/ TRaise
    \/ TDeadline

SpecTimeout == InitTimeout /\ [][NextTimeout]_vars

\* -------------------------------------------------- graceful_degradation
\* `tool_sets`: the capability levels, in the order of the list
tool_sets ==
    << [tools |-> {"Read", "Write", "Bash", "Grep", "Glob"},
        description |-> "Full capabilities"],
       [tools |-> {"Read", "Bash"}, description |-> "Limited capabilities"],
       [tools |-> {"Read"}, description |-> "Minimal capabilities"] >>

InitDegrade == RetryExampleIdle /\ TIdle /\ GIdle

\* The for statement takes its i-th element and the try block begins, or
\* the list is used up and "All capability levels failed" is printed.
GLoopNext(i) ==
    IF i <= Len(tool_sets)
    THEN /\ glevel' = i
         /\ gpc' = "Trying"
         /\ gitems' = 0
         /\ gtried' = Append(gtried, tool_sets[i].description)
         /\ UNCHANGED gresult
    ELSE /\ gpc' = "Done"
         /\ gresult' = "all_failed"
         /\ UNCHANGED <<glevel, gitems, gtried>>

\* graceful_degradation is called and the loop is entered
GStart ==
    /\ gpc = "Idle"
    /\ GLoopNext(1)
    /\ UNCHANGED <<graised, goutcomes, gyielded>>
    /\ UNCHANGED <<rvars, tvars>>

\* query() yields one more message
GYield ==
    /\ gpc = "Trying"
    /\ gitems < MaxItems
    /\ gitems' = gitems + 1
    /\ UNCHANGED <<gpc, glevel, gresult, graised, gtried, goutcomes, gyielded>>
    /\ UNCHANGED <<rvars, tvars>>

\* mutant: the `return` after the success line is missing
GDrained_NoReturn ==
    /\ gpc = "Trying"
    /\ goutcomes' = Append(goutcomes, "drained")
    /\ gyielded' = Append(gyielded, gitems)
    /\ GLoopNext(glevel + 1)
    /\ UNCHANGED graised
    /\ UNCHANGED <<rvars, tvars>>

\* query() ends: "Succeeded with ..." is printed and `return` runs
GDrained ==
    /\ gpc = "Trying"
    /\ gpc' = "Done"
    /\ gresult' = "succeeded"
    /\ goutcomes' = Append(goutcomes, "drained")
    /\ gyielded' = Append(gyielded, gitems)
    /\ UNCHANGED <<glevel, gitems, graised, gtried>>
    /\ UNCHANGED <<rvars, tvars>>

\* query() raises ProcessError: `except ProcessError as e: ... continue`
GRaiseProcessError ==
    /\ gpc = "Trying"
    /\ goutcomes' = Append(goutcomes, "ProcessError")
    /\ gyielded' = Append(gyielded, gitems)
    /\ GLoopNext(glevel + 1)
    /\ UNCHANGED graised
    /\ UNCHANGED <<rvars, tvars>>

\* query() raises an error that is no ProcessError: no except clause
\* catches it and it leaves graceful_degradation
GRaiseOtherError ==
    /\ gpc = "Trying"
    /\ \E k \in OtherKinds \cup {"CLINotFoundError"} :
          /\ graised' = Error(k, glevel)
          /\ goutcomes' = Append(goutcomes, k)
    /\ gyielded' = Append(gyielded, gitems)
    /\ gpc' = "Done"
    /\ gresult' = "raise"
    /\ UNCHANGED <<glevel, gitems, gtried>>
    /\ UNCHANGED <<rvars, tvars>>

NextDegrade ==
    \/ GStart
    \/ GYield
    \/ GDrained
    \/ GRaiseProcessError
    \/ GRaiseOtherError

SpecDegrade == InitDegrade /\ [][NextDegrade]_vars

\* ------------------------------------------------- outcomes of one call
Success == pc = "Done" /\ result = "return"
Failure == pc = "Done" /\ result = "raise" /\ raised.kind = "ProcessError"
Fatal == pc = "Done" /\ result = "raise" /\ raised.kind = "CLINotFoundError"
Timeout == pc = "Done" /\ result = "raise" /\ raised.kind = "TimeoutError"
Unknown == pc = "Done" /\ result = "raise" /\ raised.kind \in OtherKinds

\* the outcomes of the invocations of query() so far, in order
IsOutcome(e) == e \notin {"query", "sleep"}
Outcomes == SelectSeq(trace, IsOutcome)

AllTransient == \A i \in 1..Len(Outcomes) : Outcomes[i] = "ProcessError"

\* --------------------------------------------------------------- claims

\* C1: with max_retries = N >= 1 and every invocation of query() raising
\* ProcessError, query() is invoked exactly N times: never more than N, and
\* the call ends only after the N-th, with the Failure outcome.
C1_ExactlyNAttempts ==
    (max_retries >= 1 /\ AllTransient) =>
        /\ Invocations <= max_retries
        /\ pc = "Done" => (Failure /\ Invocations = max_retries
                                   /\ Len(Outcomes) = max_retries)

C1_Witness ==
    Failure /\ max_retries = 3 /\ Invocations = 3 /\ AllTransient

\* C2: a CLINotFoundError is never retried: it ends the call at once with
\* that error, no invocation and no sleep follows it, and raised by the
\* first attempt it leaves query() invoked exactly once.
C2_FatalNotRetried ==
    \A i \in 1..Len(trace) :
        trace[i] = "CLINotFoundError" =>
            /\ i = Len(trace)
            /\ Fatal
            /\ raised = Error("CLINotFoundError", Invocations)
            /\ Sleeps = Invocations - 1
            /\ (Outcomes[1] = "CLINotFoundError" => Invocations = 1)

C2_Witness ==
    /\ Fatal /\ max_retries = 3 /\ Invocations = 1
    /\ trace = <<"query", "CLINotFoundError">>

\* C3: if attempts 1..k-1 raise ProcessError and attempt k is drained, the
\* call ends with Success after exactly k invocations (attempt count k),
\* and no attempt and no sleep follows the drained one.
C3_SuccessStops ==
    \A i \in 1..Len(trace) :
        trace[i] = "drained" =>
            /\ i = Len(trace)
            /\ Success
            /\ Invocations = Count(trace, "ProcessError") + 1
            /\ Invocations = Len(Outcomes)
            /\ attempt + 1 = Invocations
            /\ Invocations <= max_retries
            /\ Sleeps = Invocations - 1

C3_Witness ==
    /\ Success /\ max_retries = 3 /\ attempt + 1 = 2
    /\ trace = <<"query", "ProcessError", "sleep", "query", "drained">>

\* C4: the i-th sleep of a call, which comes before attempt k = i + 1, lasts
\* base_delay * 2^(k-2); the delays are base, 2*base, 4*base, ... in order.
C4_BackoffDelays ==
    /\ \A i \in 1..Len(delays) : delays[i] = base_delay * 2 ^ ((i + 1) - 2)
    /\ Len(delays) = Sleeps
    /\ pc = "RetryWaiting" => Len(delays) = Invocations /\ delay = delays[Len(delays)]
    /\ pc = "Attempting" => Len(delays) = Invocations - 1

C4_Witness ==
    /\ Success /\ max_retries = 3 /\ base_delay = 1
    /\ Count(trace, "ProcessError") = 2
    /\ delays = <<1, 2>>

\* C5: when every attempt fails with ProcessError, the exception the call
\* raises is the one of the last attempt, not of an earlier one.
C5_LastErrorRaised ==
    Failure => /\ raised = Error("ProcessError", Invocations)
               /\ raised = last_exception
               /\ Invocations = max_retries

C5_Witness ==
    Failure /\ max_retries = 3 /\ raised.id = 3

\* C8: an error that is neither ProcessError nor CLINotFoundError is not
\* retried: no invocation and no sleep follows it, and the call raises that
\* same error.
C8_UnknownNotRetried ==
    \A i \in 1..Len(trace) :
        trace[i] \in OtherKinds =>
            /\ i = Len(trace)
            /\ Unknown
            /\ raised = Error(trace[i], Invocations)
            /\ Sleeps = Invocations - 1

C8_Witness ==
    /\ Unknown /\ max_retries = 3
    /\ trace = <<"query", "ProcessError", "sleep", "query", "CLIJSONDecodeError">>

\* C9: every sleep comes right after a failed attempt and is followed by
\* another attempt: none before the first attempt, none after a drained
\* attempt, none after the last failed attempt; a call ending in Failure
\* after m failed attempts has slept m - 1 times.
C9_SleepOnlyBetweenAttempts ==
    /\ \A i \in 1..Len(trace) :
           trace[i] = "sleep" =>
               /\ i > 1
               /\ trace[i - 1] = "ProcessError"
               /\ i < Len(trace) => trace[i + 1] = "query"
               /\ i = Len(trace) => pc = "RetryWaiting"
    /\ pc = "RetryWaiting" => trace[Len(trace)] = "sleep"
    /\ Failure => Sleeps = Count(trace, "ProcessError") - 1
    /\ pc = "Done" => trace = <<>> \/ trace[Len(trace)] # "sleep"

C9_Witness ==
    Failure /\ max_retries = 3 /\ Sleeps = 2 /\ Count(trace, "ProcessError") = 3

\* C6: if the deadline is reached during the backoff waits, the call ends
\* with Timeout: it makes no further attempt and does not end with Failure.
\* (slept is a lower bound of the time since the call began.)
C6_TimeoutOnDeadline ==
    slept >= TimeoutSeconds => Timeout

\* C7: in timeout_example, the deadline passing while the next message is
\* awaited aborts the iteration and reports the timeout; completion is
\* reported only if query() ended before the deadline; never both.
C7_TimeoutOrCompleted ==
    /\ Expired(tclock) => (tpc = "Done" /\ reports = {"timed_out"} /\ ~tdrained)
    /\ "timed_out" \in reports => (Expired(tclock) /\ tpc = "Done")
    /\ "completed" \in reports => (tdrained /\ ~Expired(tclock) /\ tpc = "Done")
    /\ ~({"completed", "timed_out"} \subseteq reports)
    /\ tpc = "Done" => Cardinality(reports) = 1

C7_Witness ==
    tpc = "Done" /\ reports = {"timed_out"} /\ titems = 1 /\ tclock = TimeoutSeconds

\* the steps of the state machine of spec section 4.1, Done standing for
\* its terminal states
Transitions ==
    {<<"Idle", "Attempting">>, <<"Attempting", "Attempting">>,
     <<"Attempting", "RetryWaiting">>, <<"RetryWaiting", "Attempting">>,
     <<"Attempting", "Done">>}

TerminalCount(S) == Cardinality({i \in 1..Len(S) : S[i]})

\* C10 as stated, its final result: a call with max_retries >= 1 that has
\* ended is in one of the states Success, Failure, Fatal, Timeout.
C10_FourTerminalStates ==
    (pc = "Done" /\ max_retries >= 1) =>
        TerminalCount(<<Success, Failure, Fatal, Timeout>>) = 1

\* C10 as amended: a call with max_retries >= 1 moves only along
\* Idle -> Attempting -> {RetryWaiting -> Attempting, Done}, takes no step
\* from Done, and, every query() and sleep ending, eventually stays in
\* exactly one of Success, Failure, Fatal, Timeout, Unknown.
C10_Terminates ==
    /\ [][max_retries >= 1 => (pc # "Done" /\ <<pc, pc'>> \in Transitions)]_vars
    /\ <>[](max_retries >= 1 =>
               TerminalCount(<<Success, Failure, Fatal, Timeout, Unknown>>) = 1)

C10_Witness ==
    /\ Unknown /\ max_retries = 2 /\ Sleeps = 1
    /\ raised = Error("Exception", 2)

\* the step is an invocation of query() failing with ProcessError
TransientStep ==
    Count(trace', "ProcessError") = Count(trace, "ProcessError") + 1

\* C11: a call with max_retries >= 1 ends with Success only if its last
\* invocation of query() was drained without an error; an attempt that
\* raises ProcessError, also after yielding messages, is a failed attempt:
\* it is followed by a sleep and a new query() starting with no message,
\* or it is the max_retries-th and the call raises; a call whose last
\* invocation raised ends by raising that error, never by returning.
C11_SuccessOnlyWhenDrained ==
    /\ [](max_retries >= 1 =>
            /\ Success => (trace[Len(trace)] = "drained" /\ raised = None)
            /\ (pc = "Done" /\ Outcomes[Len(Outcomes)] # "drained") =>
                   /\ result = "raise"
                   /\ raised = Error(Outcomes[Len(Outcomes)], Invocations))
    /\ [][TransientStep =>
             /\ ~Success'
             /\ \/ pc' = "RetryWaiting" /\ Invocations < max_retries
                \/ Failure' /\ Invocations = max_retries]_vars
    /\ [][pc = "RetryWaiting" =>
             (pc' = "Attempting" /\ items' = 0
              /\ Invocations' = Invocations + 1)]_vars

\* the second and last attempt yielded messages and then raised ProcessError
C11_Witness ==
    /\ Failure /\ items >= 1 /\ max_retries = 2 /\ Invocations = 2
    /\ raised = Error("ProcessError", 2)

\* C13: with max_retries <= 0 the loop body never runs: query() is never
\* invoked, nothing is slept, and the call returns normally with no
\* exception, the same outcome as a Success.
C13_ZeroRetriesReturns ==
    max_retries <= 0 =>
        /\ pc \in {"Idle", "Done"}
        /\ Invocations = 0 /\ trace = <<>>
        /\ Sleeps = 0 /\ delays = <<>> /\ slept = 0
        /\ last_exception = None
        /\ pc = "Done" => (result = "return" /\ raised = None /\ Success)

C13_Witness ==
    max_retries = 0 /\ pc = "Done" /\ result = "return" /\ trace = <<>>

\* the descriptions of tool_sets, in the order of the list
Descriptions == [i \in 1..Len(tool_sets) |-> tool_sets[i].description]

\* C12: the levels are tried in the order Full, Limited, Minimal; a level
\* is tried only if every earlier one ended with ProcessError; a drained
\* level ends the function with the success line and no later level is
\* tried; "All capability levels failed" is printed only after all three
\* ended with ProcessError; any other error ends the function by
\* propagating, the remaining levels untried.
C12_DegradeInOrder ==
    /\ gtried = SubSeq(Descriptions, 1, Len(gtried))
    /\ Len(gtried) = glevel
    /\ Len(goutcomes) = (IF gpc = "Trying" THEN Len(gtried) - 1 ELSE Len(gtried))
    /\ \A i \in 1..Len(gtried) :
           \A j \in 1..(i - 1) : goutcomes[j] = "ProcessError"
    /\ \A i \in 1..Len(goutcomes) :
           /\ goutcomes[i] = "drained" =>
                  /\ i = Len(goutcomes) /\ Len(gtried) = i
                  /\ gpc = "Done" /\ gresult = "succeeded"
           /\ goutcomes[i] \notin {"ProcessError", "drained"} =>
                  /\ i = Len(goutcomes) /\ Len(gtried) = i
                  /\ gpc = "Done" /\ gresult = "raise"
                  /\ graised = Error(goutcomes[i], i)
    /\ gresult = "succeeded" => goutcomes[Len(goutcomes)] = "drained"
    /\ gresult = "all_failed" =>
           /\ gpc = "Done"
           /\ Len(gtried) = Len(tool_sets)
           /\ goutcomes = [i \in 1..Len(tool_sets) |-> "ProcessError"]
    /\ (gpc = "Done" /\ goutcomes[Len(goutcomes)] = "ProcessError") =>
           gresult = "all_failed"

\* Full failed with ProcessError after a message, Limited was drained
C12_Witness ==
    /\ gpc = "Done" /\ gresult = "succeeded"
    /\ gtried = <<"Full capabilities", "Limited capabilities">>
    /\ goutcomes = <<"ProcessError", "drained">>
    /\ gyielded[1] = 1

====
